---- MODULE Spec2Model ----
(***************************************************************************)
(* simple_dr_meter: the CUE resolver (audio_io._translate_from_cue), the   *)
(* sample stream segmenter (audio_io._read_audio_blocks) and the two-level *)
(* scheduler and aggregator of main.analyze_dr, as state machines.         *)
(***************************************************************************)
EXTENDS Integers, Sequences, FiniteSets, TLC

\* ------------------------------------------------------------------ bounds
MaxCueLen == 8      \* commands of a CUE sheet, the EOF sentinel included
MaxTracks == 3      \* tracks of the segmented source
MaxOffset == 4      \* track offsets are 0..MaxOffset samples
MaxStream == 5      \* the decode stream holds 0..MaxStream samples
SamplesPerBlock == 2    \* samples_per_block, scaled down from 3 * MEASURE_SAMPLE_RATE
MaxRunTracks == 3   \* tracks of a run, over all its sources
MaxCpu == 2         \* multiprocessing.cpu_count() is 1..MaxCpu

\* --------------------------------------------------------- shared helpers
NoneInt == -1       \* Python's None in an integer slot
NoneStr == "None"   \* Python's None in a string slot

Range(s) == {s[i] : i \in 1..Len(s)}
Min(a, b) == IF a <= b THEN a ELSE b
Max(a, b) == IF a >= b THEN a ELSE b

RECURSIVE SumSeq(_)
SumSeq(s) == IF s = <<>> THEN 0 ELSE s[1] + SumSeq(Tail(s))

RECURSIVE Flatten(_)
Flatten(ss) == IF ss = <<>> THEN <<>> ELSE ss[1] \o Flatten(Tail(ss))

VARIABLES
    \* _translate_from_cue
    cue_items,          \* the commands consumed so far (history of the input)
    cue_pc,             \* "run" | "done" | "error"
    index_number, index_offset,
    last_file_path, channel_count, sample_rate,
    track_start, last_title_file, last_title_track,
    tracks,
    cue_out,            \* the AudioSourceInfo values yielded so far
    \* _read_audio_blocks of one source, and the analyzer reading its blocks
    seg_in,             \* the source: channels, track offsets, the decode stream
    f_pos,              \* bytes read so far from the decode pipe f
    f_open,             \* the pipe is open (inside "with p.stdout as f")
    n_none, n,          \* read_n_bytes: n is None / the value of n
    gen_pc,             \* read_n_bytes: "loop" | "tail"
    max_buffer,         \* content of max_buffer, one stream sample per slot
    analyzed,           \* per track, the sample blocks as the analyzer saw them
    \* the inner pool serving compute_dr: imap_unordered(..., chunksize=4)
    feed_pc,            \* the pool's task thread: "idle" | "feeding" | "done"
    feed_chunk,         \* the blocks it has pulled for the task it is building
    inqueue,            \* the tasks (chunks of blocks) put for the workers
    workers,            \* per worker thread: its task, the array it reads, its results
    \* main.analyze_dr
    run_in,             \* audio_info, cpu_count, keep_precision
    src_pc,             \* per source, where its process_part call stands
    src_ti,             \* per source, the track its loop is at (1-based)
    src_dr,             \* per source, dr_metrics.dr of the track just analyzed
    cb_log,             \* per source, the calls of track_cb for its tracks, in order
    dr_items,
    dr_log_items,
    run_pc,             \* "running" | "returned" | "aborted"
    dr_mean_rounded,
    dr_median,
    log_groups,         \* what make_log_groups yields for dr_log_items
    \* parse_cue
    cue_text,           \* the lines of the CUE file
    parse_pos,          \* lines read so far
    parse_out,          \* the commands yielded so far
    parse_pc,           \* "run" | "done" | "error"
    \* main.main
    main_in,            \* --no-log, whether dr.txt exists at the start
    main_pc,            \* where main() stands
    probed,             \* ffprobe processes spawned so far (sources resolved)
    log_file            \* dr.txt: its state and the group sections written

cueVars == <<cue_items, cue_pc, index_number, index_offset, last_file_path,
             channel_count, sample_rate, track_start, last_title_file,
             last_title_track, tracks, cue_out>>

segVars == <<seg_in, f_pos, f_open, n_none, n, gen_pc, max_buffer, analyzed>>

runVars == <<run_in, src_pc, src_ti, src_dr, cb_log, dr_items, dr_log_items,
             run_pc, dr_mean_rounded, dr_median, log_groups>>

poolVars == <<feed_pc, feed_chunk, inqueue, workers>>

parseVars == <<cue_text, parse_pos, parse_out, parse_pc>>

mainVars == <<main_in, main_pc, probed, log_file>>

vars == <<cueVars, segVars, poolVars, runVars, parseVars, mainVars>>

\* the resolver's, the parser's and main()'s own variables
otherVars == <<cueVars, parseVars, mainVars>>

\* what the resolver's steps leave alone
notCueVars == <<segVars, poolVars, runVars, parseVars, mainVars>>
\* what the steps of analyze_dr outside compute_dr leave alone
notRunVars == <<otherVars, segVars, poolVars>>

\* ============================================================ CUE resolver
\* A parsed command, as parse_cue yields it: (cmd, *args).
CueCmd(c, num, t, s) == [cmd |-> c, number |-> num, time |-> t, text |-> s]

CueFiles == {"a.wav", "b.wav"}
CueTitles == {"x", "y"}
\* MM:SS:FF texts of the INDEX commands
CueTimes == {<<0, 0, 1>>, <<0, 2, 0>>}
CueIndexNumbers == {0, 1}

\* ffprobe's answer for a file: (channel_count, sample_rate)
ProbeChannels(p) == IF p = "a.wav" THEN 2 ELSE 1
ProbeRate(p) == IF p = "a.wav" THEN 44100 ELSE 8000

\* parse_cd_time: m*60 + s + Fraction(f, 75), kept as the numerator over 75
parse_cd_time(t) == (t[1] * 60 + t[2]) * 75 + t[3]

\* int(sample_rate * offset): offset is frames/75, int() truncates
SampleOffset(rate, frames) == (rate * frames) \div 75

\* (index_number is None) or (index_number > number)
TakesIndex_last(cur, number) == TRUE
TakesIndex(cur, number) == cur = NoneInt \/ cur > number

\* tracks = [] after a source is yielded
TracksAfterYield_keep(tr) == tr
TracksAfterYield(tr) == <<>>

TrackInfo(name, offset) == [name |-> name, offset_samples |-> offset]

AudioSourceInfo(p, name, ch, rate, tr) ==
    [path |-> p, name |-> name, channel_count |-> ch, sample_rate |-> rate,
     tracks |-> tr]

\* the parser and main() are not part of the run
ParseIdle ==
    /\ cue_text = <<>>
    /\ parse_pos = 0
    /\ parse_out = <<>>
    /\ parse_pc = "done"
MainIdle ==
    /\ main_in = [no_log |-> TRUE, log_exists |-> FALSE]
    /\ main_pc = "analyze"
    /\ probed = 0
    /\ log_file = [state |-> "absent", sections |-> 0]

CueInit ==
    /\ cue_items = <<>>
    /\ cue_pc = "run"
    /\ index_number = NoneInt
    /\ index_offset = NoneInt
    /\ last_file_path = NoneStr
    /\ channel_count = NoneInt
    /\ sample_rate = NoneInt
    /\ track_start = FALSE
    /\ last_title_file = NoneStr
    /\ last_title_track = NoneStr
    /\ tracks = <<>>
    /\ cue_out = <<>>

CueCanRead == cue_pc = "run" /\ Len(cue_items) < MaxCueLen

\* The sheets read: a header (PERFORMER, TITLE), then FILEs, each followed by
\* its TRACKs, each TRACK followed by its own PERFORMER/TITLE and INDEX lines.
\* A FILE may also fall between the INDEX lines of a track (a sheet that splits
\* a track's pregap and start over two files).
LastCmd == IF cue_items = <<>> THEN "START" ELSE cue_items[Len(cue_items)].cmd
SeenCmd(c) == \E i \in 1..Len(cue_items) : cue_items[i].cmd = c

\* lines 157-163: a pending track is closed by TRACK, FILE and EOF
PendingTrackFails == index_number # NoneInt /\ last_title_track = NoneStr
TracksClosed ==
    IF index_number # NoneInt
    THEN Append(tracks, TrackInfo(last_title_track, index_offset))
    ELSE tracks

CueFail(c) ==
    /\ cue_items' = Append(cue_items, c)
    /\ cue_pc' = "error"
    /\ UNCHANGED <<index_number, index_offset, last_file_path, channel_count,
                   sample_rate, track_start, last_title_file, last_title_track,
                   tracks, cue_out>>

CueTrack ==
    /\ CueCanRead
    /\ UNCHANGED notCueVars
    /\ LastCmd \in {"FILE", "INDEX"}
    /\ LET c == CueCmd("TRACK", 1, <<0, 0, 0>>, "") IN
       IF PendingTrackFails THEN CueFail(c)
       ELSE /\ cue_items' = Append(cue_items, c)
            /\ tracks' = TracksClosed
            /\ index_number' = NoneInt
            /\ track_start' = TRUE
            /\ UNCHANGED <<cue_pc, index_offset, last_file_path, channel_count,
                           sample_rate, last_title_file, last_title_track,
                           cue_out>>

\* lines 168-177: the previous file's source is yielded when there is one
YieldedAt(tr) ==
    IF last_file_path # NoneStr
    THEN Append(cue_out, AudioSourceInfo(last_file_path, last_title_file,
                                         channel_count, sample_rate, tr))
    ELSE cue_out

CueFile ==
    /\ CueCanRead
    /\ UNCHANGED notCueVars
    /\ LastCmd \in {"START", "PERFORMER", "TITLE", "INDEX"}
    /\ ~track_start
    /\ \E p \in CueFiles :
       LET c == CueCmd("FILE", 0, <<0, 0, 0>>, p) IN
       IF PendingTrackFails THEN CueFail(c)
       ELSE /\ cue_items' = Append(cue_items, c)
            /\ cue_out' = YieldedAt(TracksClosed)
            /\ tracks' = IF last_file_path # NoneStr
                         THEN TracksAfterYield(TracksClosed)
                         ELSE TracksClosed
            /\ index_number' = NoneInt
            /\ last_file_path' = p
            /\ channel_count' = ProbeChannels(p)
            /\ sample_rate' = ProbeRate(p)
            /\ UNCHANGED <<cue_pc, index_offset, track_start, last_title_file,
                           last_title_track>>

CueEOF ==
    /\ CueCanRead
    /\ UNCHANGED notCueVars
    /\ LET c == CueCmd("EOF", 0, <<0, 0, 0>>, "") IN
       IF PendingTrackFails THEN CueFail(c)
       ELSE /\ cue_items' = Append(cue_items, c)
            /\ cue_out' = YieldedAt(TracksClosed)
            /\ tracks' = IF last_file_path # NoneStr
                         THEN TracksAfterYield(TracksClosed)
                         ELSE TracksClosed
            /\ index_number' = NoneInt
            /\ cue_pc' = "done"
            /\ UNCHANGED <<index_offset, last_file_path, channel_count,
                           sample_rate, track_start, last_title_file,
                           last_title_track>>

CueTitle ==
    /\ CueCanRead
    /\ UNCHANGED notCueVars
    /\ LastCmd \in {"START", "PERFORMER", "TRACK"}
    /\ \E s \in CueTitles :
       /\ cue_items' = Append(cue_items, CueCmd("TITLE", 0, <<0, 0, 0>>, s))
       /\ IF track_start
          THEN last_title_track' = s /\ UNCHANGED last_title_file
          ELSE last_title_file' = s /\ UNCHANGED last_title_track
       /\ UNCHANGED <<cue_pc, index_number, index_offset, last_file_path,
                      channel_count, sample_rate, track_start, tracks, cue_out>>

CueIndex ==
    /\ CueCanRead
    /\ UNCHANGED notCueVars
    /\ SeenCmd("TRACK")
    /\ LastCmd \in {"TRACK", "PERFORMER", "TITLE", "INDEX", "FILE"}
    /\ \E number \in CueIndexNumbers, t \in CueTimes :
       LET c == CueCmd("INDEX", number, t, "") IN
       IF TakesIndex(index_number, number) /\ sample_rate = NoneInt
       THEN CueFail(c)      \* int(None * offset): TypeError
       ELSE /\ cue_items' = Append(cue_items, c)
            /\ track_start' = FALSE
            /\ IF TakesIndex(index_number, number)
               THEN /\ index_number' = number
                    /\ index_offset' = SampleOffset(sample_rate, parse_cd_time(t))
               ELSE UNCHANGED <<index_number, index_offset>>
            /\ UNCHANGED <<cue_pc, last_file_path, channel_count, sample_rate,
                           last_title_file, last_title_track, tracks, cue_out>>

CuePerformer ==
    /\ CueCanRead
    /\ UNCHANGED notCueVars
    /\ LastCmd \in {"START", "TRACK"}
    /\ cue_items' = Append(cue_items, CueCmd("PERFORMER", 0, <<0, 0, 0>>, "p"))
    /\ UNCHANGED <<cue_pc, index_number, index_offset, last_file_path,
                   channel_count, sample_rate, track_start, last_title_file,
                   last_title_track, tracks, cue_out>>

\* ---------------------------------------------- the sheet, read as a sheet
CuePos(c) == {i \in 1..Len(cue_items) : cue_items[i].cmd = c}
SetMin(S) == CHOOSE x \in S : \A y \in S : x <= y
SetMax(S) == CHOOSE x \in S : \A y \in S : x >= y

RECURSIVE SortedSeq(_)
SortedSeq(S) == IF S = {} THEN <<>> ELSE <<SetMin(S)>> \o SortedSeq(S \ {SetMin(S)})

\* A TRACK at position i owns the INDEX lines up to the next TRACK (or EOF).
TrackClose(i) ==
    SetMin({j \in (i + 1)..Len(cue_items) : cue_items[j].cmd \in {"TRACK", "EOF"}}
           \cup {Len(cue_items) + 1})
IndexesOf(i) == {j \in (i + 1)..(TrackClose(i) - 1) : cue_items[j].cmd = "INDEX"}
\* position of the FILE line in force at position j (0: none)
FileAt(j) == SetMax({k \in 1..j : cue_items[k].cmd = "FILE"} \cup {0})
TracksWithIndex == SortedSeq({i \in CuePos("TRACK") : IndexesOf(i) # {}})
LowestIndexes(i) ==
    {j \in IndexesOf(i) :
        \A k \in IndexesOf(i) : cue_items[j].number <= cue_items[k].number}
OffsetOfIndex(j) ==
    SampleOffset(ProbeRate(cue_items[FileAt(j)].text), parse_cd_time(cue_items[j].time))
RecordedTracks == Flatten([k \in 1..Len(cue_out) |-> cue_out[k].tracks])

\* Every track lies in one file: no FILE line between a TRACK and its INDEXes.
CueCompliant ==
    \A i \in CuePos("TRACK") :
        FileAt(i) > 0 /\ \A j \in IndexesOf(i) : FileAt(j) = FileAt(i)

\* Times do not go back: across the tracks of a file, and along the index
\* numbers of a track.
CueTimesOrdered ==
    \A i1, i2 \in CuePos("TRACK") : \A j1 \in IndexesOf(i1), j2 \in IndexesOf(i2) :
        (/\ FileAt(j1) = FileAt(j2)
         /\ \/ i1 < i2
            \/ i1 = i2 /\ cue_items[j1].number < cue_items[j2].number)
        => parse_cd_time(cue_items[j1].time) <= parse_cd_time(cue_items[j2].time)

CueValid == CueCompliant /\ CueTimesOrdered

TracksOfFile(f) == SortedSeq({i \in CuePos("TRACK") : IndexesOf(i) # {} /\ FileAt(i) = f})
FileLines == SortedSeq(CuePos("FILE"))

\* C9: when the resolver has finished a valid sheet, it has yielded one source
\* per FILE line, in order; the track list of each holds exactly the tracks
\* declared under that FILE line, and its offsets never decrease.
C9_OffsetsMonotoneOwnFile ==
    (cue_pc = "done" /\ CueValid) =>
        /\ Len(cue_out) = Len(FileLines)
        /\ \A k \in 1..Len(cue_out) :
            LET src == cue_out[k]
                own == TracksOfFile(FileLines[k])
            IN /\ src.path = cue_items[FileLines[k]].text
               /\ Len(src.tracks) = Len(own)
               /\ \A m \in 1..Len(src.tracks) :
                    /\ src.tracks[m].offset_samples
                         \in {OffsetOfIndex(j) : j \in IndexesOf(own[m])}
                    /\ m > 1 => src.tracks[m - 1].offset_samples
                                  <= src.tracks[m].offset_samples

\* a finished valid sheet of two files, the first with a track and the second
\* with a track at a smaller offset than the first file's
C9_Witness ==
    /\ cue_pc = "done" /\ CueValid
    /\ Len(cue_out) = 2
    /\ Len(cue_out[1].tracks) >= 1 /\ Len(cue_out[2].tracks) >= 1
    /\ cue_out[2].tracks[1].offset_samples < cue_out[1].tracks[1].offset_samples

CueNext ==
    \/ CueTrack
    \/ CueFile
    \/ CueEOF
    \/ CueTitle
    \/ CueIndex
    \/ CuePerformer

\* ====================================================== main.analyze_dr
audio_info == run_in.audio_info
cpu_count == run_in.cpu_count
keep_precision == run_in.keep_precision
num_files == Len(audio_info)
Sources == 1..num_files

threads_outer == Max(1, Min(num_files, cpu_count))
threads_inner == cpu_count \div threads_outer

\* the dr values compute_dr returns, when present
DrValues == {0, 1, 2}

\* a number as numpy returns it, kept exact: num/den, nan as 0/0
Rat(num, den) == [num |-> num, den |-> den]
NaN == Rat(0, 0)

\* numpy.round: to the nearest integer, ties to the even one
RoundHalfEven(num, den) ==
    LET q == num \div den
        r == num % den
    IN IF 2 * r < den THEN q
       ELSE IF 2 * r > den THEN q + 1
       ELSE IF q % 2 = 0 THEN q ELSE q + 1

\* numpy.mean(dr_items)
Mean(items) == IF items = <<>> THEN NaN ELSE Rat(SumSeq(items), Len(items))

\* numpy.median(dr_items): the middle of the sorted values
RECURSIVE Insert(_, _)
Insert(x, sorted) ==
    IF sorted = <<>> THEN <<x>>
    ELSE IF x <= sorted[1] THEN <<x>> \o sorted
    ELSE <<sorted[1]>> \o Insert(x, Tail(sorted))
RECURSIVE Sort(_)
Sort(items) == IF items = <<>> THEN <<>> ELSE Insert(items[1], Sort(Tail(items)))
MedianInput_unsorted(items) == items
MedianInput(items) == Sort(items)
Median(items) ==
    LET v == MedianInput(items)
        k == Len(v)
    IN IF k = 0 THEN NaN
       ELSE IF k % 2 = 1 THEN Rat(v[(k + 1) \div 2], 1)
       ELSE Rat(v[k \div 2] + v[k \div 2 + 1], 2)

\* "if dr:" (line 190)
CountsForMean(dr) == dr # NoneInt /\ dr # 0

\* make_log_groups: itertools.groupby on (channel_count, sample_rate) puts
\* neighbouring items of equal key in one group; tracks_dr chains their rows
GroupKey(item) ==
    <<audio_info[item.src].channel_count, audio_info[item.src].sample_rate>>
RECURSIVE RunLength(_, _)
RunLength(items, key) ==
    IF items = <<>> \/ GroupKey(items[1]) # key THEN 0
    ELSE 1 + RunLength(Tail(items), key)
LogGroup(key, subitems) ==
    [channels |-> key[1], sample_rate |-> key[2],
     tracks_dr |-> Flatten([k \in 1..Len(subitems) |-> subitems[k].rows])]
RECURSIVE make_log_groups(_)
make_log_groups(l) ==
    IF l = <<>> THEN <<>>
    ELSE LET key == GroupKey(l[1])
             len == RunLength(l, key)
         IN <<LogGroup(key, SubSeq(l, 1, len))>>
                \o make_log_groups(SubSeq(l, len + 1, Len(l)))

RunInitOf(in) ==
    /\ run_in = in
    /\ src_pc = [s \in 1..Len(in.audio_info) |-> "queued"]
    /\ src_ti = [s \in 1..Len(in.audio_info) |-> 0]
    /\ src_dr = [s \in 1..Len(in.audio_info) |-> NoneInt]
    /\ cb_log = [s \in 1..Len(in.audio_info) |-> <<>>]
    /\ dr_items = <<>>
    /\ dr_log_items = <<>>
    /\ run_pc = "running"
    /\ dr_mean_rounded = NaN
    /\ dr_median = NaN
    /\ log_groups = <<>>

Busy == {s \in Sources : src_pc[s] \notin {"queued", "done", "failed"}}

\* a worker of the outer pool (or the builtin map) takes the next source
RunTake(s) ==
    /\ run_pc = "running"
    /\ UNCHANGED notRunVars
    /\ src_pc[s] = "queued"
    /\ \A s2 \in Sources : s2 < s => src_pc[s2] # "queued"
    /\ Cardinality(Busy) < threads_outer
    \* the builtin map stops at the first exception
    /\ threads_outer <= 1 => \A s2 \in Sources : src_pc[s2] # "failed"
    /\ src_pc' = [src_pc EXCEPT ![s] = "taken"]
    /\ UNCHANGED <<run_in, src_ti, src_dr, cb_log, dr_items, dr_log_items,
                   run_pc, dr_mean_rounded, dr_median, log_groups>>

\* process_part up to the loop of process_results (lines 200, 183-185)
RunBegin(s) ==
    /\ run_pc = "running"
    /\ UNCHANGED notRunVars
    /\ src_pc[s] = "taken"
    /\ dr_log_items' = Append(dr_log_items, [src |-> s, rows |-> <<>>])
    /\ src_pc' = [src_pc EXCEPT ![s] = "next"]
    /\ UNCHANGED <<run_in, src_ti, src_dr, cb_log, dr_items, run_pc,
                   dr_mean_rounded, dr_median, log_groups>>

\* track_cb(track_info, dr) (line 189)
RunCallback(s) ==
    /\ run_pc = "running"
    /\ UNCHANGED notRunVars
    /\ src_pc[s] = "cb"
    /\ cb_log' = [cb_log EXCEPT ![s] =
                      Append(@, [src |-> s, track |-> src_ti[s], dr |-> src_dr[s]])]
    /\ src_pc' = [src_pc EXCEPT ![s] = "record"]
    /\ UNCHANGED <<run_in, src_ti, src_dr, dr_items, dr_log_items, run_pc,
                   dr_mean_rounded, dr_median, log_groups>>

\* lines 190-196: dr_items.append(dr) when dr is truthy, and the track's row
RowAdded_last(items, s, row) ==
    [k \in 1..Len(items) |->
        IF k = Len(items)
        THEN [items[k] EXCEPT !.rows = Append(@, row)]
        ELSE items[k]]
RowAdded(items, s, row) ==
    [k \in 1..Len(items) |->
        IF items[k].src = s
        THEN [items[k] EXCEPT !.rows = Append(@, row)]
        ELSE items[k]]

RunRecord(s) ==
    /\ run_pc = "running"
    /\ UNCHANGED notRunVars
    /\ src_pc[s] = "record"
    /\ dr_items' = IF CountsForMean(src_dr[s]) THEN Append(dr_items, src_dr[s])
                   ELSE dr_items
    /\ dr_log_items' = RowAdded(dr_log_items, s,
                                [src |-> s, track |-> src_ti[s], dr |-> src_dr[s]])
    /\ src_pc' = [src_pc EXCEPT ![s] = "next"]
    /\ UNCHANGED <<run_in, src_ti, src_dr, cb_log, run_pc, dr_mean_rounded,
                   dr_median, log_groups>>

\* lines 207-214, once every source's result has been taken from the pool;
\* int(nan) raises when dr_items is empty and precision is not kept
RunReturn ==
    /\ run_pc = "running"
    /\ UNCHANGED notRunVars
    /\ \A s \in Sources : src_pc[s] = "done"
    /\ IF ~keep_precision /\ dr_items = <<>>
       THEN run_pc' = "aborted" /\ UNCHANGED <<dr_mean_rounded, dr_median, log_groups>>
       ELSE /\ run_pc' = "returned"
            /\ dr_mean_rounded' =
                 IF keep_precision THEN Mean(dr_items)
                 ELSE Rat(RoundHalfEven(Mean(dr_items).num, Mean(dr_items).den), 1)
            /\ dr_median' = Median(dr_items)
            /\ log_groups' = make_log_groups(dr_log_items)
    /\ UNCHANGED <<run_in, src_pc, src_ti, src_dr, cb_log, dr_items, dr_log_items>>

\* the exception of a failed process_part reaches the loop at line 203
RunAbort ==
    /\ run_pc = "running"
    /\ UNCHANGED notRunVars
    /\ \E s \in Sources : src_pc[s] = "failed"
    /\ run_pc' = "aborted"
    /\ UNCHANGED <<run_in, src_pc, src_ti, src_dr, cb_log, dr_items,
                   dr_log_items, dr_mean_rounded, dr_median, log_groups>>

\* ------------------------------------- analyze_dr over several sources
\* Here compute_dr and the segmenter behind it are one step per track: the
\* track's dr is absent or a number, or the step raises.
ntracks(s) == audio_info[s].ntracks

\* zip(audio_data.blocks_generator, audio_info_part.tracks): the next track
RunNextTrack(s) ==
    /\ run_pc = "running"
    /\ src_pc[s] = "next"
    /\ UNCHANGED notRunVars
    /\ IF src_ti[s] < ntracks(s)
       THEN /\ src_ti' = [src_ti EXCEPT ![s] = @ + 1]
            /\ src_pc' = [src_pc EXCEPT ![s] = "track"]
       ELSE /\ src_pc' = [src_pc EXCEPT ![s] = "done"]
            /\ UNCHANGED src_ti
    /\ UNCHANGED <<run_in, src_dr, cb_log, dr_items, dr_log_items, run_pc,
                   dr_mean_rounded, dr_median, log_groups>>

\* dr_metrics = compute_dr(map_impl, audio_info_part, track_samples, keep_precision)
RunAnalyze(s) ==
    /\ run_pc = "running"
    /\ src_pc[s] = "track"
    /\ UNCHANGED notRunVars
    /\ \E dr \in DrValues \cup {NoneInt} : src_dr' = [src_dr EXCEPT ![s] = dr]
    /\ src_pc' = [src_pc EXCEPT ![s] = "cb"]
    /\ UNCHANGED <<run_in, src_ti, cb_log, dr_items, dr_log_items, run_pc,
                   dr_mean_rounded, dr_median, log_groups>>

\* the segmenter raises while compute_dr reads the track (AssertionError or
\* ValueError of read_n_bytes): the exception leaves process_part
RunAnalyzeFails(s) ==
    /\ run_pc = "running"
    /\ src_pc[s] = "track"
    /\ UNCHANGED notRunVars
    /\ src_pc' = [src_pc EXCEPT ![s] = "failed"]
    /\ UNCHANGED <<run_in, src_ti, src_dr, cb_log, dr_items, dr_log_items, run_pc,
                   dr_mean_rounded, dr_median, log_groups>>

Formats == {<<2, 44100>>, <<2, 48000>>}
\* the ways to split up to MaxRunTracks tracks over sources of one or more tracks
RECURSIVE TrackCounts(_)
TrackCounts(k) ==
    IF k = 0 THEN {<<>>}
    ELSE {<<>>} \cup UNION {{<<t>> \o rest : rest \in TrackCounts(k - t)} : t \in 1..k}
RunInputsOf(counts) ==
    {[audio_info |-> [s \in 1..Len(counts) |->
                        [channel_count |-> fmt[s][1], sample_rate |-> fmt[s][2],
                         ntracks |-> counts[s]]],
      cpu_count |-> c,
      keep_precision |-> kp] :
        \* up to the names of the formats: the first source has the first one
        fmt \in {f \in [1..Len(counts) -> Formats] : f[1] = <<2, 44100>>},
        c \in 1..MaxCpu,
        kp \in BOOLEAN}
RunInputs == UNION {RunInputsOf(counts) : counts \in TrackCounts(MaxRunTracks) \ {<<>>}}

\* ================================================= audio_io._read_audio_blocks
\* The model follows one source, source 1 of audio_info.  A sample of the
\* decode stream is named by its position 0, 1, ...; a block is the sequence of
\* the samples an array holds; an untouched slot of a buffer holds NoSample.
NoSample == -1
SegChannels == {1, 2}

seg_tracks == seg_in.tracks                         \* the offset_samples of tracks
bytes_per_sample == 4 * seg_in.channels
max_bytes_per_block == bytes_per_sample * SamplesPerBlock
total_bytes == bytes_per_sample * seg_in.total      \* what the decoder writes

\* the samples held by nbytes bytes of the stream from byte position from
StreamSamples(from, nbytes) ==
    [i \in 1..(nbytes \div bytes_per_sample) |-> from \div bytes_per_sample + i - 1]

\* f.read(size) and readinto(f, buffer of size bytes): a buffered reader fills
\* the request unless the stream ends first
ReadSize(size) == Min(size, total_bytes - f_pos)

\* buffer after readinto wrote the samples read over its first slots
Written(buffer, samples) ==
    [i \in 1..Len(buffer) |-> IF i <= Len(samples) THEN samples[i] ELSE buffer[i]]

\* (n is None) or (n >= max_bytes_per_block)
LoopGuard_positive(nn, nv) == nn \/ nv > 0
LoopGuard(nn, nv) == nn \/ nv >= max_bytes_per_block

\* what resuming read_n_bytes does next:
\*   "max"   readinto(f, max_buffer) returned data, the block is yielded
\*   "tmp"   readinto(f, tmp_buffer) returned n bytes, the block is yielded
\*   "stop"  the generator returns
\*   "value" bytearray(n) raises ValueError (n < 0)
\*   "assert" readinto(f, tmp_buffer) returned less than n: AssertionError
GenKind ==
    IF gen_pc = "tail" THEN "stop"
    ELSE IF LoopGuard(n_none, n)
         THEN IF ReadSize(max_bytes_per_block) > 0 THEN "max" ELSE "stop"
    ELSE IF n = 0 THEN "stop"
    ELSE IF n < 0 THEN "value"
    ELSE IF ReadSize(n) = n THEN "tmp" ELSE "assert"

\* the read of a step that yields, and the array it yields
GenReadSize == IF GenKind = "max" THEN ReadSize(max_bytes_per_block) ELSE ReadSize(n)
GenSamples == StreamSamples(f_pos, GenReadSize)
\* make_array(buffer, size): a view of the buffer's first size bytes; yielded
\* remembers the samples the view showed when it was made
make_array(buf, size, data, yielded) ==
    [buf |-> buf, size |-> size, data |-> data, yielded |-> yielded]
GenArray ==
    IF GenKind = "max"
    THEN make_array("max", GenReadSize \div bytes_per_sample, <<>>, GenSamples)
    ELSE make_array("tmp", GenReadSize \div bytes_per_sample, GenSamples, GenSamples)
\* what an array shows when it is read
ArrayShows(a, buffer) == IF a.buf = "max" THEN SubSeq(buffer, 1, a.size) ELSE a.data

\* the generator's own state after a step that yields ("if n: n -= read_size")
GenYields ==
    /\ f_pos' = f_pos + GenReadSize
    /\ max_buffer' = IF GenKind = "max" THEN Written(max_buffer, GenSamples)
                     ELSE max_buffer
    /\ n' = IF GenKind = "max" /\ ~n_none THEN n - GenReadSize ELSE n
    /\ gen_pc' = IF GenKind = "max" THEN "loop" ELSE "tail"
    /\ UNCHANGED <<seg_in, n_none, f_open>>

\* compute_dr's dr for the blocks it analyzed: absent without blocks, else a
\* number decided by the sample values
DrOutcomes(blocks) == IF blocks = <<>> THEN {NoneInt} ELSE DrValues

SegSources ==
    [channels : SegChannels,
     tracks : UNION {[1..k -> 0..MaxOffset] : k \in 0..MaxTracks},
     total : 0..MaxStream,
     returncode : {0, 1}]

SegInitOf(in) ==
    /\ seg_in = in
    /\ f_pos = 0
    /\ f_open = FALSE
    /\ n_none = FALSE
    /\ n = 0
    /\ gen_pc = "loop"
    /\ max_buffer = [i \in 1..SamplesPerBlock |-> NoSample]
    /\ analyzed = [i \in 1..Len(in.tracks) |-> <<>>]

PoolIdle ==
    /\ feed_pc = "idle"
    /\ feed_chunk = <<>>
    /\ inqueue = <<>>
    /\ workers = <<>>

\* f.read(bytes_per_sample * skip_samples)
SkipBytes_samples(skip_samples) == skip_samples
SkipBytes(skip_samples) == bytes_per_sample * skip_samples

\* bytes_to_read of track k (lines 331-335); the last track reads to the end
LastTrack(k) == k = Len(seg_tracks)
BytesToRead(k) == (seg_tracks[k + 1] - seg_tracks[k]) * bytes_per_sample

\* zip asks blocks_generator for the next track's block generator: the first
\* time this starts ffmpeg and skips to the first track (lines 288-307); after
\* the last track the generator ends and the pipe is closed
SegNext ==
    /\ run_pc = "running"
    /\ src_pc[1] = "next"
    /\ UNCHANGED <<otherVars, poolVars>>
    /\ UNCHANGED <<seg_in, max_buffer, analyzed>>
    /\ UNCHANGED <<run_in, src_dr, cb_log, dr_items, dr_log_items, run_pc,
                   dr_mean_rounded, dr_median, log_groups>>
    /\ IF src_ti[1] = 0 /\ seg_tracks = <<>>
       THEN \* tracks[0]: IndexError
            /\ src_pc' = [src_pc EXCEPT ![1] = "failed"]
            /\ UNCHANGED <<f_pos, f_open, n_none, n, gen_pc, src_ti>>
       ELSE IF src_ti[1] = Len(seg_tracks)
       THEN /\ f_open' = FALSE
            /\ src_pc' = [src_pc EXCEPT ![1] = "done"]
            /\ UNCHANGED <<f_pos, n_none, n, gen_pc, src_ti>>
       ELSE /\ f_open' = TRUE
            /\ f_pos' = IF src_ti[1] = 0 /\ seg_tracks[1] > 0
                        THEN f_pos + ReadSize(SkipBytes(seg_tracks[1]))
                        ELSE f_pos
            /\ src_ti' = [src_ti EXCEPT ![1] = @ + 1]
            /\ n_none' = LastTrack(src_ti[1] + 1)
            /\ n' = IF LastTrack(src_ti[1] + 1) THEN 0 ELSE BytesToRead(src_ti[1] + 1)
            /\ gen_pc' = "loop"
            /\ src_pc' = [src_pc EXCEPT ![1] = "track"]

\* the builtin map: compute_dr pulls one block and analyzes it
SegMapBlock ==
    /\ run_pc = "running"
    /\ src_pc[1] = "track"
    /\ threads_inner <= 1
    /\ GenKind \in {"max", "tmp"}
    /\ GenYields
    /\ analyzed' = [analyzed EXCEPT ![src_ti[1]] =
                        Append(@, ArrayShows(GenArray, max_buffer'))]
    /\ UNCHANGED <<otherVars, poolVars, runVars>>

\* the block generator is exhausted: compute_dr returns the track's metrics
SegTrackEnd ==
    /\ run_pc = "running"
    /\ src_pc[1] = "track"
    /\ threads_inner <= 1
    /\ GenKind = "stop"
    /\ \E dr \in DrOutcomes(analyzed[src_ti[1]]) :
          src_dr' = [src_dr EXCEPT ![1] = dr]
    /\ src_pc' = [src_pc EXCEPT ![1] = "cb"]
    /\ UNCHANGED <<otherVars, segVars, poolVars>>
    /\ UNCHANGED <<run_in, src_ti, cb_log, dr_items, dr_log_items, run_pc,
                   dr_mean_rounded, dr_median, log_groups>>

\* read_n_bytes raises: the exception leaves process_part, the pipe is closed
SegGenError ==
    /\ run_pc = "running"
    /\ src_pc[1] = "track"
    /\ threads_inner <= 1
    /\ GenKind \in {"value", "assert"}
    /\ f_pos' = IF GenKind = "assert" THEN f_pos + ReadSize(n) ELSE f_pos
    /\ f_open' = FALSE
    /\ src_pc' = [src_pc EXCEPT ![1] = "failed"]
    /\ UNCHANGED <<otherVars, poolVars>>
    /\ UNCHANGED <<seg_in, n_none, n, gen_pc, max_buffer, analyzed>>
    /\ UNCHANGED <<run_in, src_ti, src_dr, cb_log, dr_items, dr_log_items,
                   run_pc, dr_mean_rounded, dr_median, log_groups>>

\* ------------------------------------------------ the segmenter's contract
\* the samples a..b-1 of the stream, in order
SampleRange(a, b) == [i \in 1..(b - a) |-> a + i - 1]
\* the offsets do not decrease and lie within the decoded stream
SegWithin ==
    /\ seg_tracks # <<>>
    /\ \A k \in 1..Len(seg_tracks) : seg_tracks[k] <= seg_in.total
    /\ \A k \in 1..(Len(seg_tracks) - 1) : seg_tracks[k] <= seg_tracks[k + 1]
\* where track k ends in the stream
TrackEnd(k) == IF LastTrack(k) THEN seg_in.total ELSE seg_tracks[k + 1]
\* track k's block generator has been drained
TrackDrained(k) ==
    \/ k < src_ti[1]
    \/ k = src_ti[1] /\ src_pc[1] \in {"cb", "record", "next", "done"}
Delivered(k) == Flatten(analyzed[k])

\* C1: for offsets that do not decrease and lie within the stream, read by a
\* consumer that drains each track before the next: the splitter does not fail;
\* the samples before the first offset are read and not yielded; the blocks of
\* a drained track k are the stream samples from its offset to the next
\* track's offset (to the end of the stream for the last track), in blocks of
\* samples_per_block with only the last one shorter; and while a track that is
\* not the last is being read, the pipe has not been read beyond the next
\* track's offset.
C1_SplitterContract ==
    SegWithin =>
        /\ src_pc[1] # "failed"
        /\ src_ti[1] >= 1 => f_pos >= bytes_per_sample * seg_tracks[1]
        /\ \A k \in 1..Len(seg_tracks) :
            /\ TrackDrained(k) =>
                /\ Delivered(k) = SampleRange(seg_tracks[k], TrackEnd(k))
                /\ \A b \in 1..Len(analyzed[k]) :
                     /\ Len(analyzed[k][b]) >= 1
                     /\ Len(analyzed[k][b]) <= SamplesPerBlock
                     /\ b < Len(analyzed[k]) => Len(analyzed[k][b]) = SamplesPerBlock
            /\ (k = src_ti[1] /\ ~LastTrack(k)) =>
                  f_pos <= bytes_per_sample * seg_tracks[k + 1]

\* a source with samples to skip whose first track ends in the middle of a
\* block, fully read: the first track got a full block and a shorter one
C1_Witness ==
    /\ SegWithin
    /\ src_pc[1] = "done"
    /\ Len(seg_tracks) >= 2
    /\ seg_tracks[1] > 0
    /\ Len(analyzed[1]) >= 2
    /\ Len(analyzed[1][Len(analyzed[1])]) < SamplesPerBlock
    /\ analyzed[Len(seg_tracks)] # <<>>

DeliveredCount == SumSeq([k \in 1..Len(seg_tracks) |-> Len(Delivered(k))])

DecodeFailed ==
    \/ seg_in.returncode # 0
    \/ seg_tracks # <<>> /\ seg_in.total < seg_tracks[Len(seg_tracks)]
\* track k's samples are cut short by the failure
TrackCut(k) == LastTrack(k) \/ seg_tracks[k + 1] > seg_in.total

\* C10: when the decode process fails or its stream is cut short, analyze_dr
\* does not return, and no dr value of a track that the failure cut short is
\* passed to the callback.
C10_DecodeFailureFatal ==
    DecodeFailed =>
        /\ run_pc # "returned"
        /\ \A i \in 1..Len(cb_log[1]) :
              cb_log[1][i].dr # NoneInt => ~TrackCut(cb_log[1][i].track)

\* the source of the segmenter as analyze_dr sees it
SegAudioInfo(in) ==
    <<[channel_count |-> in.channels, sample_rate |-> 44100,
       ntracks |-> Len(in.tracks)]>>

\* one source, one CPU: the builtin map at both levels
InitSplit ==
    /\ CueInit
    /\ ParseIdle
    /\ MainIdle
    /\ PoolIdle
    /\ \E in \in SegSources :
        /\ SegInitOf(in)
        /\ RunInitOf([audio_info |-> SegAudioInfo(in), cpu_count |-> 1,
                      keep_precision |-> FALSE])

SplitNext ==
    \/ RunTake(1)
    \/ RunBegin(1)
    \/ SegNext
    \/ SegMapBlock
    \/ SegTrackEnd
    \/ SegGenError
    \/ RunCallback(1)
    \/ RunRecord(1)
    \/ RunReturn
    \/ RunAbort

SpecSplit == InitSplit /\ [][SplitNext]_vars

\* ================================ compute_dr over the inner pool's threads
\* map_impl_inner = pool.imap_unordered with chunksize=4 (main.py:167): the
\* pool's task thread pulls the blocks of the track's generator four at a time
\* and puts each chunk as one task; a worker thread takes a task, analyzes its
\* arrays one after the other and hands the chunk's results back.
ChunkSize == 4
MaxPoolStream == 9  \* samples of a decode stream read through the pool

WorkerIdle == [chunk |-> <<>>, reading |-> FALSE, snap |-> <<>>, out |-> <<>>]
Workers == 1..Len(workers)

\* the task thread starts on the track's generator (imap_unordered is called)
PoolStart ==
    /\ run_pc = "running"
    /\ src_pc[1] = "track"
    /\ threads_inner >= 2
    /\ feed_pc = "idle"
    /\ feed_pc' = "feeding"
    /\ UNCHANGED <<feed_chunk, inqueue, workers>>
    /\ UNCHANGED <<otherVars, segVars, runVars>>

\* itertools.islice(it, chunksize): the task thread pulls one more block, and
\* puts the chunk once it holds chunksize of them
PoolFeed ==
    /\ run_pc = "running"
    /\ src_pc[1] = "track"
    /\ feed_pc = "feeding"
    /\ GenKind \in {"max", "tmp"}
    /\ GenYields
    /\ IF Len(feed_chunk) + 1 = ChunkSize
       THEN /\ inqueue' = Append(inqueue, Append(feed_chunk, GenArray))
            /\ feed_chunk' = <<>>
       ELSE /\ feed_chunk' = Append(feed_chunk, GenArray)
            /\ UNCHANGED inqueue
    /\ UNCHANGED <<feed_pc, workers, analyzed>>
    /\ UNCHANGED <<otherVars, runVars>>

\* the generator is exhausted: the last, shorter chunk is put if it has blocks
PoolFeedEnd ==
    /\ run_pc = "running"
    /\ src_pc[1] = "track"
    /\ feed_pc = "feeding"
    /\ GenKind = "stop"
    /\ inqueue' = IF feed_chunk = <<>> THEN inqueue ELSE Append(inqueue, feed_chunk)
    /\ feed_chunk' = <<>>
    /\ feed_pc' = "done"
    /\ UNCHANGED workers
    /\ UNCHANGED <<otherVars, segVars, runVars>>

\* read_n_bytes raises in the task thread: the pool hands the exception to
\* the consumer of the results, compute_dr raises, the pipe is closed
PoolGenError ==
    /\ run_pc = "running"
    /\ src_pc[1] = "track"
    /\ feed_pc = "feeding"
    /\ GenKind \in {"value", "assert"}
    /\ f_pos' = IF GenKind = "assert" THEN f_pos + ReadSize(n) ELSE f_pos
    /\ f_open' = FALSE
    /\ src_pc' = [src_pc EXCEPT ![1] = "failed"]
    /\ feed_pc' = "done"
    /\ UNCHANGED <<feed_chunk, inqueue, workers>>
    /\ UNCHANGED otherVars
    /\ UNCHANGED <<seg_in, n_none, n, gen_pc, max_buffer, analyzed>>
    /\ UNCHANGED <<run_in, src_ti, src_dr, cb_log, dr_items, dr_log_items,
                   run_pc, dr_mean_rounded, dr_median, log_groups>>

\* a free worker takes the next task
PoolTake(w) ==
    /\ run_pc = "running"
    /\ src_pc[1] = "track"
    /\ workers[w].chunk = <<>>
    /\ inqueue # <<>>
    /\ workers' = [workers EXCEPT ![w].chunk = Head(inqueue)]
    /\ inqueue' = Tail(inqueue)
    /\ UNCHANGED <<feed_pc, feed_chunk>>
    /\ UNCHANGED <<otherVars, segVars, runVars>>

\* the worker starts to read the next array of its task
PoolRead(w) ==
    /\ run_pc = "running"
    /\ src_pc[1] = "track"
    /\ workers[w].chunk # <<>>
    /\ ~workers[w].reading
    /\ workers' = [workers EXCEPT ![w].reading = TRUE,
                                  ![w].snap = ArrayShows(workers[w].chunk[1], max_buffer)]
    /\ UNCHANGED <<feed_pc, feed_chunk, inqueue>>
    /\ UNCHANGED <<otherVars, segVars, runVars>>

\* what a read sees that started on the samples before and ended on the
\* samples now: nothing orders it with the task thread's readinto
Seen(before, now) ==
    {b \in [1..Len(before) -> {before[i] : i \in 1..Len(before)}
                                 \cup {now[i] : i \in 1..Len(now)}] :
        \A i \in 1..Len(before) : b[i] \in {before[i], now[i]}}

\* the worker has analyzed the array; after the last array of the task the
\* chunk's results go back to compute_dr
PoolAnalyzed(w) ==
    /\ run_pc = "running"
    /\ src_pc[1] = "track"
    /\ workers[w].reading
    /\ \E block \in Seen(workers[w].snap, ArrayShows(workers[w].chunk[1], max_buffer)) :
         IF Len(workers[w].chunk) = 1
         THEN /\ analyzed' = [analyzed EXCEPT ![src_ti[1]] =
                                 @ \o Append(workers[w].out, block)]
              /\ workers' = [workers EXCEPT ![w] = WorkerIdle]
         ELSE /\ workers' = [workers EXCEPT ![w].chunk = Tail(@),
                                           ![w].reading = FALSE,
                                           ![w].snap = <<>>,
                                           ![w].out = Append(@, block)]
              /\ UNCHANGED analyzed
    /\ UNCHANGED <<feed_pc, feed_chunk, inqueue>>
    /\ UNCHANGED <<seg_in, f_pos, f_open, n_none, n, gen_pc, max_buffer>>
    /\ UNCHANGED <<otherVars, runVars>>

\* every chunk's results are in: compute_dr returns the track's metrics
PoolTrackEnd ==
    /\ run_pc = "running"
    /\ src_pc[1] = "track"
    /\ feed_pc = "done"
    /\ inqueue = <<>>
    /\ \A w \in Workers : workers[w] = WorkerIdle
    /\ \E dr \in DrOutcomes(analyzed[src_ti[1]]) :
          src_dr' = [src_dr EXCEPT ![1] = dr]
    /\ src_pc' = [src_pc EXCEPT ![1] = "cb"]
    /\ feed_pc' = "idle"
    /\ UNCHANGED <<feed_chunk, inqueue, workers>>
    /\ UNCHANGED <<otherVars, segVars>>
    /\ UNCHANGED <<run_in, src_ti, cb_log, dr_items, dr_log_items, run_pc,
                   dr_mean_rounded, dr_median, log_groups>>

PoolSources ==
    [channels : SegChannels,
     tracks : UNION {[1..k -> 0..MaxOffset] : k \in 1..MaxTracks},
     total : 0..MaxPoolStream,
     returncode : {0}]

\* one source and two or more CPUs: the builtin map for the sources, a pool
\* of cpu_count threads for the blocks of a track
InitPool ==
    /\ CueInit
    /\ ParseIdle
    /\ MainIdle
    /\ \E in \in PoolSources : \E c \in 2..MaxCpu :
        /\ SegInitOf(in)
        /\ RunInitOf([audio_info |-> SegAudioInfo(in), cpu_count |-> c,
                      keep_precision |-> FALSE])
        /\ feed_pc = "idle"
        /\ feed_chunk = <<>>
        /\ inqueue = <<>>
        /\ workers = [w \in 1..c |-> WorkerIdle]

PoolNext ==
    \/ RunTake(1)
    \/ RunBegin(1)
    \/ SegNext
    \/ PoolStart
    \/ PoolFeed
    \/ PoolFeedEnd
    \/ PoolGenError
    \/ \E w \in Workers : PoolTake(w)
    \/ \E w \in Workers : PoolRead(w)
    \/ \E w \in Workers : PoolAnalyzed(w)
    \/ PoolTrackEnd
    \/ RunCallback(1)
    \/ RunRecord(1)
    \/ RunReturn
    \/ RunAbort

SpecPool == InitPool /\ [][PoolNext]_vars

\* the arrays yielded by the segmenter that the analyzer has not consumed yet
PendingArrays ==
    Range(feed_chunk)
        \cup UNION {Range(inqueue[i]) : i \in 1..Len(inqueue)}
        \cup UNION {Range(workers[w].chunk) : w \in Workers}

\* C15: a block yielded by the segmenter keeps its samples until the analyzer
\* has consumed it: no later read of the decode stream changes what a
\* yielded, not yet analyzed array shows, also when the pool has pulled a
\* chunk of blocks before any of them is analyzed.
C15_YieldedBlockKeepsSamples ==
    \A a \in PendingArrays : ArrayShows(a, max_buffer) = a.yielded

\* the block sequence of track k: its samples, samples_per_block at a time
RECURSIVE Blocks(_)
Blocks(samples) ==
    IF samples = <<>> THEN <<>>
    ELSE IF Len(samples) <= SamplesPerBlock THEN <<samples>>
    ELSE <<SubSeq(samples, 1, SamplesPerBlock)>>
            \o Blocks(SubSeq(samples, SamplesPerBlock + 1, Len(samples)))
TrackBlocks(k) == Blocks(SampleRange(seg_tracks[k], TrackEnd(k)))
\* how many times each block occurs: imap_unordered gives no order
BagOfBlocks(blocks) ==
    [b \in Range(blocks) |-> Cardinality({i \in 1..Len(blocks) : blocks[i] = b})]

\* C6: the analysis of a track does not depend on the schedule of the pool's
\* threads: for one block sequence of the track, what compute_dr analyzes (so
\* the DRMetrics it returns) is what the builtin map analyzes, the blocks of
\* the track's sequence, in every schedule.
C6_ScheduleIndependent ==
    SegWithin =>
        \A k \in 1..Len(seg_tracks) :
            TrackDrained(k) => BagOfBlocks(analyzed[k]) = BagOfBlocks(TrackBlocks(k))

\* ------------------------------------------- more on the resolver's output
\* C14: resolving a sheet (of up to 3 tracks) without PERFORMER and TITLE
\* commands raises no assertion failure and no other error.
C14_NoTitleSheetResolves ==
    (\A i \in 1..Len(cue_items) : cue_items[i].cmd \notin {"PERFORMER", "TITLE"})
        => cue_pc # "error"

\* round(sample_rate * seconds) on the exact seconds frames/75
RoundedOffset(rate, frames) == RoundHalfEven(rate * frames, 75)
RoundedOffsetOfIndex(j) ==
    RoundedOffset(ProbeRate(cue_items[FileAt(j)].text), parse_cd_time(cue_items[j].time))

\* C17: the offset recorded for a track is round(sample_rate * seconds) of
\* its INDEX time (of an INDEX line with the track's lowest number), the
\* nearest integer, also for sample rates that are not a multiple of 75.
C17_OffsetIsRounded ==
    (cue_pc = "done" /\ CueCompliant) =>
        \A k \in 1..Len(RecordedTracks) :
            k <= Len(TracksWithIndex) =>
               RecordedTracks[k].offset_samples
                   \in {RoundedOffsetOfIndex(j) : j \in LowestIndexes(TracksWithIndex[k])}

\* the tracks recorded so far, over the files read
AllRecorded == RecordedTracks \o tracks
\* the TITLE lines between the TRACK at position i and its first INDEX
OwnTitles(i) ==
    {j \in (i + 1)..(TrackClose(i) - 1) :
        /\ cue_items[j].cmd = "TITLE"
        /\ \A k \in IndexesOf(i) : j < k}
\* the TITLE lines that belong to tracks other than the one at position i
OtherTitles(i) == UNION {OwnTitles(i2) : i2 \in CuePos("TRACK") \ {i}}

\* C20: the name recorded for a track is the TITLE given between its TRACK
\* command and its first INDEX; a track without a TITLE of its own does not
\* get the name of another track.
C20_NameIsOwnTitle ==
    (cue_pc # "error" /\ CueCompliant) =>
        \A k \in 1..Len(AllRecorded) :
            k <= Len(TracksWithIndex) =>
               LET i == TracksWithIndex[k] IN
               IF OwnTitles(i) # {}
               THEN AllRecorded[k].name = cue_items[SetMax(OwnTitles(i))].text
               ELSE AllRecorded[k].name \notin {cue_items[j].text : j \in OtherTitles(i)}

\* the resolver alone
CueIdleRun ==
    [audio_info |-> <<>>, cpu_count |-> 1, keep_precision |-> FALSE]
InitCue ==
    /\ CueInit
    /\ ParseIdle
    /\ MainIdle
    /\ PoolIdle
    /\ SegInitOf([channels |-> 1, tracks |-> <<>>, total |-> 0, returncode |-> 0])
    /\ RunInitOf(CueIdleRun)

SpecCue == InitCue /\ [][CueNext]_vars

\* ================================================================ parse_cue
\* A line of the CUE file is the sequence of its words, as line.strip() and
\* the splits at white space see it.  A word is plain text, a text in double
\* quotes, a decimal number or an MM:SS:FF time.
MaxParseLines == 3  \* lines of the CUE file

Word(k, v) == [k |-> k, v |-> v]
ParseLineSet ==
    {<<>>,
     <<Word("word", "REM")>>,
     <<Word("word", "REM"), Word("word", "GENRE")>>,
     <<Word("word", "PERFORMER"), Word("quoted", "p")>>,
     <<Word("word", "TITLE"), Word("quoted", "x")>>,
     <<Word("word", "FILE"), Word("quoted", "a.wav"), Word("word", "WAVE")>>,
     <<Word("word", "TRACK"), Word("int", 1), Word("word", "AUDIO")>>,
     <<Word("word", "TRACK"), Word("int", 1)>>,
     <<Word("word", "INDEX"), Word("int", 1), Word("time", <<0, 0, 1>>)>>}

\* _whitespace_pattern.split(s, 1): the first word and the rest, or the whole
\* of s (the empty string included) as the single element
SplitOnce(ws) == IF Len(ws) >= 2 THEN <<<<ws[1]>>, Tail(ws)>> ELSE <<ws>>

Raises == [kind |-> "raise"]
Ignored == [kind |-> "none"]
Yields(c) == [kind |-> "cmd", cmd |-> c]

\* _unquote(s): the text between the first and the last double quote;
\* s.index raises without one (args here hold at most one quoted word)
QuotedIn(args) == {i \in 1..Len(args) : args[i].k = "quoted"}
\* int(number)
IsInt(ws) == Len(ws) = 1 /\ ws[1].k = "int"
\* parse_cd_time(offset): three numbers split at ':'
IsTime(ws) == Len(ws) = 1 /\ ws[1].k = "time"

_parse_cue_cmd(line) ==
    LET parts == SplitOnce(line) IN
    IF Len(parts) # 2 THEN Raises       \* cmd, args = ...: ValueError
    ELSE LET cmd == parts[1][1]
             args == parts[2]
         IN IF cmd.k # "word" THEN Ignored
            ELSE IF cmd.v \in {"PERFORMER", "TITLE", "FILE"}
            THEN IF QuotedIn(args) = {} THEN Raises
                 ELSE Yields(CueCmd(cmd.v, 0, <<0, 0, 0>>,
                                    args[CHOOSE i \in QuotedIn(args) : TRUE].v))
            ELSE IF cmd.v = "TRACK"
            THEN LET p2 == SplitOnce(args) IN
                 IF Len(p2) # 2 \/ ~IsInt(p2[1]) THEN Raises
                 ELSE Yields(CueCmd("TRACK", p2[1][1].v, <<0, 0, 0>>, ""))
            ELSE IF cmd.v = "INDEX"
            THEN LET p2 == SplitOnce(args) IN
                 IF Len(p2) # 2 \/ ~IsInt(p2[1]) \/ ~IsTime(p2[2]) THEN Raises
                 ELSE Yields(CueCmd("INDEX", p2[1][1].v, p2[2][1].v, ""))
            ELSE Ignored

\* for line in f: cmd = _parse_cue_cmd(line); if cmd: yield cmd
ParseLine ==
    /\ parse_pc = "run"
    /\ parse_pos < Len(cue_text)
    /\ LET r == _parse_cue_cmd(cue_text[parse_pos + 1]) IN
        /\ parse_pos' = parse_pos + 1
        /\ parse_pc' = IF r.kind = "raise" THEN "error" ELSE "run"
        /\ parse_out' = IF r.kind = "cmd" THEN Append(parse_out, r.cmd) ELSE parse_out
    /\ UNCHANGED <<cue_text, cueVars, segVars, poolVars, runVars, mainVars>>

\* yield CueCmd.EOF, None
ParseEOF ==
    /\ parse_pc = "run"
    /\ parse_pos = Len(cue_text)
    /\ parse_out' = Append(parse_out, CueCmd("EOF", 0, <<0, 0, 0>>, ""))
    /\ parse_pc' = "done"
    /\ UNCHANGED <<cue_text, parse_pos, cueVars, segVars, poolVars, runVars, mainVars>>

\* the commands of a text without failing lines
RECURSIVE CmdsOf(_)
CmdsOf(text) ==
    IF text = <<>> THEN <<>>
    ELSE LET r == _parse_cue_cmd(text[1]) IN
         (IF r.kind = "cmd" THEN <<r.cmd>> ELSE <<>>) \o CmdsOf(Tail(text))

IsCommandLine(line) ==
    /\ line # <<>>
    /\ line[1].k = "word"
    /\ line[1].v \in {"PERFORMER", "TITLE", "FILE", "TRACK", "INDEX"}

\* C18: every line that is not a PERFORMER, TITLE, FILE, TRACK or INDEX
\* command, blank and one-word lines included, is ignored: no error is raised
\* for such a line, and a finished parse has yielded the commands of the text
\* without those lines, then the EOF sentinel as its one last element.
C18_OtherLinesIgnored ==
    /\ parse_pc = "error" => IsCommandLine(cue_text[parse_pos])
    /\ parse_pc = "done" =>
          parse_out = CmdsOf(SelectSeq(cue_text, IsCommandLine))
                         \o <<CueCmd("EOF", 0, <<0, 0, 0>>, "")>>

InitParse ==
    /\ CueInit
    /\ PoolIdle
    /\ MainIdle
    /\ SegInitOf([channels |-> 1, tracks |-> <<>>, total |-> 0, returncode |-> 0])
    /\ RunInitOf(CueIdleRun)
    /\ cue_text \in UNION {[1..k -> ParseLineSet] : k \in 0..MaxParseLines}
    /\ parse_pos = 0
    /\ parse_out = <<>>
    /\ parse_pc = "run"

ParseNext ==
    \/ ParseLine
    \/ ParseEOF

SpecParse == InitParse /\ [][ParseNext]_vars


\* several sources, compute_dr as one step
\* ------------------------------------------------ the results of a run
\* the log entry of source s, and the rows appended to it
EntriesOf(s) == {k \in 1..Len(dr_log_items) : dr_log_items[k].src = s}
RowsOf(s) == IF EntriesOf(s) = {} THEN <<>>
             ELSE dr_log_items[CHOOSE k \in EntriesOf(s) : TRUE].rows
RECURSIVE DrOfRows(_)
DrOfRows(rows) == IF rows = <<>> THEN <<>> ELSE <<rows[1].dr>> \o DrOfRows(Tail(rows))
\* the dr of every analyzed track, by source and track, whatever the workers' order
PerTrackDr == Flatten([s \in 1..num_files |-> DrOfRows(RowsOf(s))])
IsPresent(dr) == dr # NoneInt
PresentDr == SelectSeq(PerTrackDr, IsPresent)
CountedDr == SelectSeq(PerTrackDr, CountsForMean)

\* C3: when precision is not kept, the official DR returned by analyze_dr is
\* round(mean) over the dr of every analyzed track with a present dr, a dr of
\* 0 included; only tracks with an absent dr are left out.
C3_OfficialDrOverPresent ==
    (run_pc = "returned" /\ ~keep_precision) =>
        /\ PresentDr # <<>>
        /\ dr_mean_rounded =
             Rat(RoundHalfEven(SumSeq(PresentDr), Len(PresentDr)), 1)

\* C4: after make_log_groups every analyzed track is in exactly one LogGroup
\* and there is exactly one LogGroup per distinct (channel_count, sample_rate)
\* pair, also when sources of equal pairs are not neighbours in dr_log_items.
GroupRows == Flatten([g \in 1..Len(log_groups) |-> log_groups[g].tracks_dr])
C4_OneGroupPerFormat ==
    run_pc = "returned" =>
        /\ Len(GroupRows) = Len(PerTrackDr)
        /\ \A s \in Sources : \A i \in 1..Len(RowsOf(s)) :
              Cardinality({k \in 1..Len(GroupRows) : GroupRows[k] = RowsOf(s)[i]}) = 1
        /\ \A g, h \in 1..Len(log_groups) :
              (/\ log_groups[g].channels = log_groups[h].channels
               /\ log_groups[g].sample_rate = log_groups[h].sample_rate) => g = h

\* C5: within one source, in every interleaving of the workers, the progress
\* callback is invoked once per track in the order of the source's track
\* list, and the rows of that source's log entry are in the same order.
C5_PerSourceOrder ==
    \A s \in Sources :
        /\ Cardinality(EntriesOf(s)) <= 1
        /\ Len(cb_log[s]) <= ntracks(s)
        /\ \A i \in 1..Len(cb_log[s]) : cb_log[s][i].src = s /\ cb_log[s][i].track = i
        /\ Len(RowsOf(s)) <= Len(cb_log[s])
        /\ \A i \in 1..Len(RowsOf(s)) : RowsOf(s)[i] = cb_log[s][i]
        /\ src_pc[s] = "done" =>
              Len(cb_log[s]) = ntracks(s) /\ Len(RowsOf(s)) = ntracks(s)
\* a source of two tracks has reported both while a later source, which
\* opened its log entry first, is in the middle of its own tracks
C5_Witness ==
    \E s, s2 \in Sources :
        /\ s < s2 /\ ntracks(s) >= 2
        /\ Len(cb_log[s]) = 2 /\ Len(RowsOf(s)) = 2
        /\ dr_log_items[1].src = s2
        /\ Len(cb_log[s2]) = 1 /\ src_pc[s2] = "record"

\* C16: in every interleaving of the outer workers the entries of
\* dr_log_items are in the order in which the resolver produced the sources.
C16_LogItemsInSourceOrder ==
    \A i, j \in 1..Len(dr_log_items) :
        i < j => dr_log_items[i].src < dr_log_items[j].src

\* the decode process of source s has been started by the first next() of
\* its blocks_generator and its stdout is not closed yet; the generator of a
\* failed source stays suspended, held by the exception that waits for the
\* main thread, until the run aborts
StreamOpen(s) == run_pc = "running" /\ src_ti[s] >= 1 /\ src_pc[s] # "done"
OpenStreams == {s \in Sources : StreamOpen(s)}

\* C19: for N >= 1 sources and P >= 1 CPUs, in every reachable state at most
\* max(1, min(N, P)) decode streams are open, one per source.
C19_OpenStreamsBounded ==
    Cardinality(OpenStreams) <= Max(1, Min(num_files, cpu_count))

MaxMainFiles == 2

no_log == main_in.no_log
\* should_write_log = not args.no_log and not args.keep_precision
should_write_log == ~no_log /\ ~keep_precision

\* _get_audio_properties: channel_count < 1 or sample_rate < 8000 exits
ValidFormat_channels(ch, rate) == ~(ch < 1)
ValidFormat(ch, rate) == ~(ch < 1 \/ rate < 8000)

\* os.path.exists(log_path) at the pre-flight check
LogCheckFails_skipped == FALSE
LogCheckFails == should_write_log /\ log_file.state # "absent"

\* lines 114-121
MainCheckLog ==
    /\ main_pc = "start"
    /\ main_pc' = IF LogCheckFails THEN "exit" ELSE "resolve"
    /\ UNCHANGED <<main_in, probed, log_file>>
    /\ UNCHANGED <<cueVars, segVars, poolVars, runVars, parseVars>>

\* read_audio_info yields the next source: ffprobe is run on its file and
\* _get_audio_properties checks the answer
MainProbe ==
    /\ main_pc = "resolve"
    /\ probed < num_files
    /\ probed' = probed + 1
    /\ main_pc' = IF ValidFormat(audio_info[probed + 1].channel_count,
                                 audio_info[probed + 1].sample_rate)
                  THEN "resolve" ELSE "exit"
    /\ UNCHANGED <<main_in, log_file>>
    /\ UNCHANGED <<cueVars, segVars, poolVars, runVars, parseVars>>

\* audio_info = tuple(read_audio_info(in_path)) is complete: the pools are
\* made and the sources handed to them
MainResolved ==
    /\ main_pc = "resolve"
    /\ probed = num_files
    /\ run_pc = "idle"
    /\ main_pc' = "analyze"
    /\ run_pc' = "running"
    /\ UNCHANGED <<main_in, probed, log_file>>
    /\ UNCHANGED <<run_in, src_pc, src_ti, src_dr, cb_log, dr_items, dr_log_items,
                   dr_mean_rounded, dr_median, log_groups>>
    /\ UNCHANGED <<cueVars, segVars, poolVars, parseVars>>

\* analyze_dr has returned (lines 128-132) or raised
MainAnalyzed ==
    /\ main_pc = "analyze"
    /\ run_pc \in {"returned", "aborted"}
    /\ main_pc' = IF run_pc = "aborted" THEN "error"
                  ELSE IF should_write_log THEN "write" ELSE "done"
    /\ UNCHANGED <<main_in, probed, log_file>>
    /\ UNCHANGED <<cueVars, segVars, poolVars, runVars, parseVars>>

\* write_log: open(out_path, mode='x') and the banner (lines 49-54)
MainWriteOpen ==
    /\ main_pc = "write"
    /\ IF log_file.state = "absent"
       THEN /\ log_file' = [state |-> "open", sections |-> 0]
            /\ main_pc' = "groups"
       ELSE /\ main_pc' = "error"        \* FileExistsError
            /\ UNCHANGED log_file
    /\ UNCHANGED <<main_in, probed>>
    /\ UNCHANGED <<cueVars, segVars, poolVars, runVars, parseVars>>

\* the albums make_log_groups collects for a group (x[0].album of its
\* sources); a source without an album title has None
GroupAlbums(g) ==
    {audio_info[g.tracks_dr[k].src].album : k \in 1..Len(g.tracks_dr)}
\* get_group_title: ", ".join(group.albums) raises on None
TitleFails(g) == NoneStr \in GroupAlbums(g)

\* for group in dr_log_groups: the generator make_log_groups builds the next
\* group, write_log writes its section (lines 55-69); an exception leaves
\* the with block, which closes the file
MainWriteGroup ==
    /\ main_pc = "groups"
    /\ log_file.sections < Len(log_groups)
    /\ IF TitleFails(log_groups[log_file.sections + 1])
       THEN /\ log_file' = [log_file EXCEPT !.state = "closed"]
            /\ main_pc' = "error"
       ELSE /\ log_file' = [log_file EXCEPT !.sections = @ + 1]
            /\ UNCHANGED main_pc
    /\ UNCHANGED <<main_in, probed>>
    /\ UNCHANGED <<cueVars, segVars, poolVars, runVars, parseVars>>

\* the groups are exhausted: the file is closed (line 71)
MainWriteEnd ==
    /\ main_pc = "groups"
    /\ log_file.sections = Len(log_groups)
    /\ log_file' = [log_file EXCEPT !.state = "closed"]
    /\ main_pc' = "done"
    /\ UNCHANGED <<main_in, probed>>
    /\ UNCHANGED <<cueVars, segVars, poolVars, runVars, parseVars>>

\* ffprobe's answers, and the titles of the sources: '' for a file of a
\* folder, the sheet's TITLE for a FILE of a CUE sheet, None when it has none
MainFormats == {<<2, 44100>>, <<1, 8000>>, <<0, 44100>>, <<2, 7999>>}
MainAlbums == {"", "x", NoneStr}
MainSources ==
    {[channel_count |-> f[1], sample_rate |-> f[2], ntracks |-> 1, album |-> a] :
        f \in MainFormats, a \in MainAlbums}

InitMain ==
    /\ CueInit
    /\ ParseIdle
    /\ PoolIdle
    /\ SegInitOf([channels |-> 1, tracks |-> <<>>, total |-> 0, returncode |-> 0])
    /\ \E files \in UNION {[1..k -> MainSources] : k \in 1..MaxMainFiles} :
       \E c \in 1..MaxCpu, kp \in BOOLEAN :
        /\ run_in = [audio_info |-> files, cpu_count |-> c, keep_precision |-> kp]
        /\ src_pc = [s \in 1..Len(files) |-> "queued"]
        /\ src_ti = [s \in 1..Len(files) |-> 0]
        /\ src_dr = [s \in 1..Len(files) |-> NoneInt]
        /\ cb_log = [s \in 1..Len(files) |-> <<>>]
    /\ dr_items = <<>>
    /\ dr_log_items = <<>>
    /\ run_pc = "idle"
    /\ dr_mean_rounded = NaN
    /\ dr_median = NaN
    /\ log_groups = <<>>
    /\ main_in \in [no_log : BOOLEAN, log_exists : BOOLEAN]
    /\ main_pc = "start"
    /\ probed = 0
    /\ log_file = [state |-> IF main_in.log_exists THEN "foreign" ELSE "absent",
                   sections |-> 0]

MainNext ==
    \/ MainCheckLog
    \/ MainProbe
    \/ MainResolved
    \/ \E s \in Sources : RunTake(s)
    \/ \E s \in Sources : RunBegin(s)
    \/ \E s \in Sources : RunNextTrack(s)
    \/ \E s \in Sources : RunAnalyze(s)
    \/ \E s \in Sources : RunAnalyzeFails(s)
    \/ \E s \in Sources : RunCallback(s)
    \/ \E s \in Sources : RunRecord(s)
    \/ RunReturn
    \/ RunAbort
    \/ MainAnalyzed
    \/ MainWriteOpen
    \/ MainWriteGroup
    \/ MainWriteEnd

SpecMain == InitMain /\ [][MainNext]_vars

\* what a run has done so far
DecodeStarted == \E s \in Sources : src_pc[s] # "queued" \/ src_ti[s] # 0
CallbackInvoked == \E s \in Sources : cb_log[s] # <<>>
LogTouched == log_file.state \in {"open", "closed"}
BadFormat(s) == audio_info[s].channel_count < 1 \/ audio_info[s].sample_rate < 8000

\* C11: a file whose probe reports fewer than one channel or a sample rate
\* below 8000 Hz aborts the whole run: once it has been probed the run has
\* exited, and a run over such a file never starts a decode, never invokes
\* the track callback and never writes a log.
C11_InvalidFormatAborts ==
    /\ (\E s \in 1..probed : BadFormat(s)) => main_pc = "exit"
    /\ (\E s \in Sources : BadFormat(s)) =>
           /\ run_pc = "idle"
           /\ ~DecodeStarted
           /\ ~CallbackInvoked
           /\ ~LogTouched

C11_Witness ==
    /\ main_pc = "exit"
    /\ probed = 2
    /\ ~BadFormat(1)
    /\ audio_info[2].channel_count >= 1
    /\ audio_info[2].sample_rate < 8000
    /\ ~LogCheckFails

\* C12: when log writing is enabled and dr.txt already exists in the target
\* folder, the run fails at the pre-flight check: no file is probed, no decode
\* is started and no callback is invoked.
C12_ExistingLogFailsFirst ==
    (~no_log /\ ~keep_precision /\ main_in.log_exists) =>
        /\ main_pc \in {"start", "exit"}
        /\ probed = 0
        /\ ~DecodeStarted
        /\ ~CallbackInvoked
        /\ log_file.state = "foreign"

C12_Witness ==
    /\ main_pc = "exit"
    /\ ~no_log /\ ~keep_precision /\ main_in.log_exists
    /\ probed = 0
    /\ \A s \in Sources : ~BadFormat(s)

InitRun ==
    /\ CueInit
    /\ ParseIdle
    /\ MainIdle
    /\ PoolIdle
    /\ SegInitOf([channels |-> 1, tracks |-> <<>>, total |-> 0, returncode |-> 0])
    /\ \E in \in RunInputs : RunInitOf(in)

RunNext ==
    \/ \E s \in Sources : RunTake(s)
    \/ \E s \in Sources : RunBegin(s)
    \/ \E s \in Sources : RunNextTrack(s)
    \/ \E s \in Sources : RunAnalyze(s)
    \/ \E s \in Sources : RunAnalyzeFails(s)
    \/ \E s \in Sources : RunCallback(s)
    \/ \E s \in Sources : RunRecord(s)
    \/ RunReturn
    \/ RunAbort

SpecRun == InitRun /\ [][RunNext]_vars

====
